---- MODULE Spec2Model ----
(***************************************************************************)
(* Model of the Converso chat widget, src/frontend_react_chatbot/src/App.js *)
(*                                                                         *)
(* The component keeps three pieces of React state (messages, input,       *)
(* isLoading) and schedules one setTimeout callback per accepted submit.   *)
(* A JavaScript string is modelled as the sequence of its UTF-16 code      *)
(* units, each written as a one-character string ("U+D83D" stands for the  *)
(* code unit 0xD83D of an emoji), so that String.length is Len.            *)
(*                                                                         *)
(* Every handler runs to completion and React commits the state updates it *)
(* made as one batch before the next event is dispatched (event handlers   *)
(* are batched; so is the setTimeout callback under the automatic batching *)
(* of createRoot), so each handler is one atomic action.                   *)
(***************************************************************************)
EXTENDS Integers, Sequences, FiniteSets

VARIABLES
  messages,   \* useState at App.js:15, the chat history
  input,      \* useState at App.js:22, the draft in the textarea
  isLoading,  \* useState at App.js:24
  timers,     \* pending setTimeout callbacks (App.js:46), each holding the
              \* trimmedInput its closure captured
  lastEvent   \* the handler that ran last

vars == <<messages, input, isLoading, timers, lastEvent>>

----------------------------------------------------------------------------
(* Bounds *)

\* longest draft enumerated character by character
MaxLen == 1

\* the history is explored up to this many messages
MaxMsgs == 5

----------------------------------------------------------------------------
(* String literals of the source *)

\* App.js:18
SeedGreeting ==
  <<
    "H", "e", "l", "l", "o", "!", " ", "U+D83D", "U+DC4B", " ", "I", " ", "a", "m", " ", "C",
    "o", "n", "v", "e", "r", "s", "o", ",", " ", "y", "o", "u", "r", " ", "A", "I", " ", "c",
    "h", "a", "t", "b", "o", "t", ".", " ", "H", "o", "w", " ", "c", "a", "n", " ", "I", " ",
    "h", "e", "l", "p", " ", "y", "o", "u", " ", "t", "o", "d", "a", "y", "?"
  >>

\* App.js:64
GreetingReply ==
  <<
    "H", "i", " ", "t", "h", "e", "r", "e", "!", " ", "U+D83D", "U+DE0A", " ", "H", "o", "w",
    " ", "c", "a", "n", " ", "I", " ", "h", "e", "l", "p", " ", "y", "o", "u", "?"
  >>

\* App.js:67
WeatherReply ==
  <<
    "I", "'", "m", " ", "j", "u", "s", "t", " ", "a", " ", "d", "e", "m", "o", " ", "A", "I",
    ",", " ", "b", "u", "t", " ", "i", "t", "'", "s", " ", "a", "l", "w", "a", "y", "s", " ",
    "s", "u", "n", "n", "y", " ", "i", "n", " ", "t", "h", "e", " ", "c", "l", "o", "u", "d",
    "!"
  >>

\* App.js:70
QuestionReply ==
  <<
    "T", "h", "a", "t", "'", "s", " ", "a", " ", "g", "r", "e", "a", "t", " ", "q", "u", "e",
    "s", "t", "i", "o", "n", "!", " ", "L", "e", "t", " ", "m", "e", " ", "l", "o", "o", "k",
    " ", "i", "n", "t", "o", " ", "i", "t", " ", "f", "o", "r", " ", "y", "o", "u", ".", " ",
    "(", "T", "h", "i", "s", " ", "i", "s", " ", "a", " ", "d", "e", "m", "o", " ", "r", "e",
    "p", "l", "y", ")"
  >>

\* App.js:73, the template literal before and after ${userInput}
EchoPrefix == << "Y", "o", "u", " ", "s", "a", "i", "d", ":", " ", "\"" >>

EchoSuffix ==
  <<
    "\"", ".", " ", "H", "o", "w", " ", "e", "l", "s", "e", " ", "c", "a", "n", " ", "I", " ",
    "a", "s", "s", "i", "s", "t", "?"
  >>

\* App.js:63, 66, 69: the patterns of the three rules
PatHello == << "h", "e", "l", "l", "o" >>

PatHi == << "h", "i" >>

PatWeather == << "w", "e", "a", "t", "h", "e", "r" >>

PatQuestionMark == << "?" >>

\* App.js:116, the textarea's maxLength
maxLength == 2048

----------------------------------------------------------------------------
(* The values the textarea can hold (e.target.value at App.js:112) *)

Alphabet == {" ", "h", "I", "?"}

ShortDrafts == UNION {[1..n -> Alphabet] : n \in 0..MaxLen}

HiThere == << "H", "i", " ", "t", "h", "e", "r", "e" >>

WhatsTheWeather ==
  <<
    "w", "h", "a", "t", "'", "s", " ", "t", "h", "e", " ", "w", "e", "a", "t", "h", "e", "r",
    "?"
  >>

IsThisReal == << "I", "s", " ", "t", "h", "i", "s", " ", "r", "e", "a", "l", "?" >>

OkThanks == << "o", "k", " ", "t", "h", "a", "n", "k", "s" >>

\* "ok thanks" typed with blanks around it and a trailing newline (shift-enter)
PaddedOkThanks == << " ", " ", "o", "k", " ", "t", "h", "a", "n", "k", "s", " ", "\n" >>

\* matches rule 1, rule 2 and rule 3 at once
HiWeather == << "h", "i", ",", " ", "w", "e", "a", "t", "h", "e", "r", "?" >>

HelloCapital == << "H", "e", "l", "l", "o" >>

\* a draft that fills the textarea
LongDraft == [i \in 1..maxLength |-> "k"]

ExampleDrafts ==
  {HiThere, WhatsTheWeather, IsThisReal, OkThanks, PaddedOkThanks, HiWeather,
   HelloCapital, LongDraft}

Drafts == ShortDrafts \cup ExampleDrafts

----------------------------------------------------------------------------
(* String methods *)

\* what String.prototype.trim strips (the ASCII part)
WhiteSpace == {" ", "\t", "\n", "\r"}

trim(s) ==
  LET keep == {i \in 1..Len(s) : s[i] \notin WhiteSpace} IN
  IF keep = {} THEN << >>
  ELSE LET first == CHOOSE i \in keep : \A j \in 1..(i - 1) : j \notin keep
           last  == CHOOSE i \in keep : (i + 1) \notin keep
                                        /\ \A j \in (i + 1)..Len(s) : j \notin keep
       IN SubSeq(s, first, last)

UpperCase ==
  << "A", "B", "C", "D", "E", "F", "G", "H", "I", "J", "K", "L", "M",
     "N", "O", "P", "Q", "R", "S", "T", "U", "V", "W", "X", "Y", "Z" >>

LowerCase ==
  << "a", "b", "c", "d", "e", "f", "g", "h", "i", "j", "k", "l", "m",
     "n", "o", "p", "q", "r", "s", "t", "u", "v", "w", "x", "y", "z" >>

UpperCaseSet == {UpperCase[k] : k \in DOMAIN UpperCase}

toLowerCaseUnit(c) ==
  IF c \in UpperCaseSet
    THEN LowerCase[CHOOSE k \in DOMAIN UpperCase : UpperCase[k] = c]
    ELSE c

\* faulty variant: the comparison forgets to lower-case the utterance
toLowerCase_omitted(s) == s

toLowerCase(s) == [i \in 1..Len(s) |-> toLowerCaseUnit(s[i])]

includes(s, p) ==
  \E i \in 1..(Len(s) - Len(p) + 1) : \A k \in 1..Len(p) : s[i + k - 1] = p[k]

endsWith(s, p) ==
  /\ Len(s) >= Len(p)
  /\ \A k \in 1..Len(p) : s[Len(s) - Len(p) + k] = p[k]

----------------------------------------------------------------------------
(* getFakeAIReply, App.js:61-74 *)

\* faulty variant: the weather rule is tried before the greeting rule
getFakeAIReply_weatherFirst(userInput) ==
  LET lower == toLowerCase(userInput) IN
  IF includes(lower, PatWeather) THEN WeatherReply
  ELSE IF includes(lower, PatHello) \/ includes(lower, PatHi) THEN GreetingReply
  ELSE IF endsWith(userInput, PatQuestionMark) THEN QuestionReply
  ELSE EchoPrefix \o userInput \o EchoSuffix

getFakeAIReply(userInput) ==
  LET lower == toLowerCase(userInput) IN
  IF includes(lower, PatHello) \/ includes(lower, PatHi) THEN GreetingReply
  ELSE IF includes(lower, PatWeather) THEN WeatherReply
  ELSE IF endsWith(userInput, PatQuestionMark) THEN QuestionReply
  ELSE EchoPrefix \o userInput \o EchoSuffix

----------------------------------------------------------------------------
(* The component *)

\* faulty variant: the message keeps the draft as typed, untrimmed
userMessage_untrimmed(trimmedInput) == [role |-> "user", content |-> input]

userMessage(trimmedInput) == [role |-> "user", content |-> trimmedInput]

aiMessage(fakeReply) == [role |-> "ai", content |-> fakeReply]

\* faulty variant: the history starts empty, without the seeded greeting
Init_noSeed ==
  /\ messages = << >>
  /\ input = << >>
  /\ isLoading = FALSE
  /\ timers = << >>
  /\ lastEvent = "none"

Init ==
  /\ messages = << aiMessage(SeedGreeting) >>
  /\ input = << >>
  /\ isLoading = FALSE
  /\ timers = << >>
  /\ lastEvent = "none"

\* faulty variants of the early return: the isLoading test is missing; the
\* two tests are joined by && instead of ||; the emptiness test is missing;
\* the emptiness test reads the untrimmed draft
earlyReturn_noLoadingCheck(trimmedInput) == trimmedInput = << >>

earlyReturn_and(trimmedInput) == trimmedInput = << >> /\ isLoading

earlyReturn_noEmptyCheck(trimmedInput) == isLoading

earlyReturn_untrimmed(trimmedInput) == input = << >> \/ isLoading

\* App.js:38, the early return
earlyReturn(trimmedInput) == trimmedInput = << >> \/ isLoading

\* faulty variant: the callback is given the draft as typed (input) instead
\* of trimmedInput
handleSendMsg_capturesDraft ==
  LET trimmedInput == trim(input) IN
  /\ lastEvent' = "handleSendMsg"
  /\ IF earlyReturn(trimmedInput)
       THEN UNCHANGED <<messages, input, isLoading, timers>>
       ELSE /\ Len(messages) + 2 <= MaxMsgs
            /\ messages' = Append(messages, userMessage(trimmedInput))
            /\ input' = << >>
            /\ isLoading' = TRUE
            /\ timers' = Append(timers, input)

\* faulty variant: the handler forgets setInput('')
handleSendMsg_keepsDraft ==
  LET trimmedInput == trim(input) IN
  /\ lastEvent' = "handleSendMsg"
  /\ IF earlyReturn(trimmedInput)
       THEN UNCHANGED <<messages, input, isLoading, timers>>
       ELSE /\ Len(messages) + 2 <= MaxMsgs
            /\ messages' = Append(messages, userMessage(trimmedInput))
            /\ isLoading' = TRUE
            /\ timers' = Append(timers, trimmedInput)
            /\ UNCHANGED input

\* App.js:35-51
handleSendMsg ==
  LET trimmedInput == trim(input) IN
  /\ lastEvent' = "handleSendMsg"
  /\ IF earlyReturn(trimmedInput)
       THEN UNCHANGED <<messages, input, isLoading, timers>>
       ELSE /\ Len(messages) + 2 <= MaxMsgs
            /\ messages' = Append(messages, userMessage(trimmedInput))
            /\ input' = << >>
            /\ isLoading' = TRUE
            /\ timers' = Append(timers, trimmedInput)

\* faulty variant: the callback forgets setIsLoading(false)
timerCallback_keepsLoading(i) ==
  /\ i \in DOMAIN timers
  /\ messages' = Append(messages, aiMessage(getFakeAIReply(timers[i])))
  /\ timers' = SubSeq(timers, 1, i - 1) \o SubSeq(timers, i + 1, Len(timers))
  /\ lastEvent' = "timerCallback"
  /\ UNCHANGED <<input, isLoading>>

\* faulty variant: the callback sets the history to the reply alone, without
\* spreading the previous messages
timerCallback_noSpread(i) ==
  /\ i \in DOMAIN timers
  /\ messages' = << aiMessage(getFakeAIReply(timers[i])) >>
  /\ isLoading' = FALSE
  /\ timers' = SubSeq(timers, 1, i - 1) \o SubSeq(timers, i + 1, Len(timers))
  /\ lastEvent' = "timerCallback"
  /\ UNCHANGED input

\* App.js:46-50, the callback given to setTimeout; i is its place among the
\* pending timers (the delays are random, so any pending timer may be next)
timerCallback(i) ==
  /\ i \in DOMAIN timers
  /\ lastEvent' = "timerCallback"
  /\ messages' = Append(messages, aiMessage(getFakeAIReply(timers[i])))
  /\ isLoading' = FALSE
  /\ timers' = SubSeq(timers, 1, i - 1) \o SubSeq(timers, i + 1, Len(timers))
  /\ UNCHANGED input

\* App.js:112
onChange(value) ==
  /\ input' = value
  /\ lastEvent' = "onChange"
  /\ UNCHANGED <<messages, isLoading, timers>>

\* App.js:106
onSubmit == handleSendMsg

\* App.js:54-58
handleKeyDown(key, shiftKey) ==
  IF key = "Enter" /\ ~shiftKey
    THEN handleSendMsg
    ELSE /\ lastEvent' = "handleKeyDown"
         /\ UNCHANGED <<messages, input, isLoading, timers>>

Keys == {"Enter", "a"}

\* Every handler may be invoked in every state: what the handlers guarantee
\* by their own conditions, whoever dispatches the events.
Next ==
  \/ \E value \in Drafts : onChange(value)
  \/ onSubmit
  \/ \E key \in Keys, shiftKey \in BOOLEAN : handleKeyDown(key, shiftKey)
  \/ \E i \in DOMAIN timers : timerCallback(i)

Spec == Init /\ [][Next]_vars

\* A scheduled setTimeout callback is run by the event loop once its delay
\* (at most 2200 ms, App.js:50) has passed: a pending timer is not postponed
\* for ever.
FireTimer == \E i \in DOMAIN timers : timerCallback(i)

SpecFair == Spec /\ WF_vars(FireTimer)

\* The same handlers behind the rendered form: a disabled textarea (App.js:114)
\* takes no input and no key, a disabled button (App.js:123) submits nothing.
textareaDisabled == isLoading

buttonDisabled == trim(input) = << >> \/ isLoading

NextUI ==
  \/ ~textareaDisabled /\ \E value \in Drafts : onChange(value)
  \/ ~buttonDisabled /\ onSubmit
  \/ ~textareaDisabled /\ \E key \in Keys, shiftKey \in BOOLEAN : handleKeyDown(key, shiftKey)
  \/ \E i \in DOMAIN timers : timerCallback(i)

SpecUI == Init /\ [][NextUI]_vars

----------------------------------------------------------------------------
(* Properties *)

Last(s) == s[Len(s)]

IsPrefix(s, t) == Len(s) <= Len(t) /\ SubSeq(t, 1, Len(s)) = s

\* C1: a submit accepted in the idle state (non-empty trimmed draft) appends
\* one user message holding the trimmed draft and sets isLoading; while
\* isLoading holds nothing but the timer changes the history or the status;
\* the timer appends one "ai" message and clears isLoading. So submit and
\* reply together append exactly two messages, user then ai, and end idle.
C1_SubmitThenReply ==
  [][ /\ (lastEvent' = "handleSendMsg" /\ ~isLoading /\ trim(input) # << >>)
           => /\ messages' = Append(messages, [role |-> "user", content |-> trim(input)])
              /\ isLoading'
      /\ (isLoading /\ lastEvent' # "timerCallback")
           => (messages' = messages /\ isLoading')
      /\ (isLoading /\ lastEvent' = "timerCallback")
           => /\ Len(messages') = Len(messages) + 1
              /\ IsPrefix(messages, messages')
              /\ Last(messages).role = "user"
              /\ Last(messages').role = "ai"
              /\ ~isLoading' ]_vars

\* C1 witness: one whole exchange has happened for a draft typed with blanks
\* around it
C1_Witness ==
  /\ Len(messages) = 3
  /\ messages[2] = [role |-> "user", content |-> OkThanks]
  /\ messages[3].role = "ai"
  /\ ~isLoading
  /\ lastEvent = "timerCallback"

\* C2: isLoading holds exactly when the last message of the history has
\* role user.
C2_LoadingIffLastIsUser == isLoading <=> (Last(messages).role = "user")

C2_Witness ==
  /\ isLoading
  /\ Last(messages).role = "user"
  /\ Len(messages) = 4

\* C3: a submit while isLoading holds changes neither the history nor the
\* status and schedules no timer, whatever the draft is.
C3_SubmitWhilePendingRejected ==
  [][ (lastEvent' = "handleSendMsg" /\ isLoading)
        => UNCHANGED <<messages, isLoading, timers>> ]_vars

\* C3 witness: a submit ran while a reply was pending and the draft was not
\* empty
C3_Witness ==
  /\ lastEvent = "handleSendMsg"
  /\ isLoading
  /\ trim(input) # << >>

\* C4: a submit of an empty or whitespace-only draft changes neither the
\* history nor the status and schedules no timer, in every state.
C4_EmptySubmitRejected ==
  [][ (lastEvent' = "handleSendMsg" /\ trim(input) = << >>)
        => UNCHANGED <<messages, isLoading, timers>> ]_vars

\* C4 witness: a submit ran on a whitespace-only draft in the idle state
C4_Witness ==
  /\ lastEvent = "handleSendMsg"
  /\ input # << >>
  /\ trim(input) = << >>
  /\ ~isLoading
  /\ timers = << >>

\* C5: the number of pending reply timers is 1 while isLoading holds and 0
\* otherwise.
C5_AtMostOneTimer == Len(timers) = (IF isLoading THEN 1 ELSE 0)

\* C5 witness: a second submit was attempted while the one timer was pending
C5_Witness ==
  /\ Len(timers) = 1
  /\ isLoading
  /\ lastEvent = "handleSendMsg"
  /\ input # << >>

\* the places of the history holding a user message followed by its reply
Replied == {i \in 1..(Len(messages) - 1) :
              messages[i].role = "user" /\ messages[i + 1].role = "ai"}

HasSubstring(s, p) == \E i \in 0..(Len(s) - Len(p)) : SubSeq(s, i + 1, i + Len(p)) = p

HasSuffix(s, p) == Len(s) >= Len(p) /\ SubSeq(s, Len(s) - Len(p) + 1, Len(s)) = p

EchoOf(u) == EchoPrefix \o u \o EchoSuffix

\* C6: every reply in the history is the one the rule table gives for the
\* user message before it, the first matching rule winning: greeting if the
\* lower-cased text contains "hello" or "hi"; else weather if it contains
\* "weather"; else the question reply if the text ends with "?"; else the
\* echo of the text exactly as stored.
C6_FirstMatchWins ==
  \A i \in Replied :
    LET u == messages[i].content
        r == messages[i + 1].content
        l == toLowerCase(u)
        greets == HasSubstring(l, PatHello) \/ HasSubstring(l, PatHi)
        weather == HasSubstring(l, PatWeather)
        asks == HasSuffix(u, PatQuestionMark)
    IN /\ greets => r = GreetingReply
       /\ (~greets /\ weather) => r = WeatherReply
       /\ (~greets /\ ~weather /\ asks) => r = QuestionReply
       /\ (~greets /\ ~weather /\ ~asks) => r = EchoOf(u)

\* C6 witness: an utterance matching all three rules got the greeting, and
\* one matching rules 2 and 3 got the weather reply
C6_Witness ==
  /\ Len(messages) = 5
  /\ messages[2] = [role |-> "user", content |-> HiWeather]
  /\ messages[3] = [role |-> "ai", content |-> GreetingReply]
  /\ messages[4] = [role |-> "user", content |-> WhatsTheWeather]
  /\ messages[5] = [role |-> "ai", content |-> WeatherReply]

\* C7 as stated: "Hi there" gets the greeting, "what's the weather?" the
\* weather reply, "Is this real?" the question reply, and "ok thanks" the
\* echo reply containing "ok thanks".
C7_SpecExamples ==
  \A i \in Replied :
    LET u == messages[i].content
        r == messages[i + 1].content
    IN /\ u = HiThere => r = GreetingReply
       /\ u = WhatsTheWeather => r = WeatherReply
       /\ u = IsThisReal => r = QuestionReply
       /\ u = OkThanks => (r = EchoOf(OkThanks) /\ HasSubstring(r, OkThanks))

\* C7 amended: as C7, except that "Is this real?" gets the greeting reply:
\* "this" contains "hi", and the greeting rule is tried first.
C7_ExamplesAsCoded ==
  \A i \in Replied :
    LET u == messages[i].content
        r == messages[i + 1].content
    IN /\ u = HiThere => r = GreetingReply
       /\ u = WhatsTheWeather => r = WeatherReply
       /\ u = IsThisReal => r = GreetingReply
       /\ u = OkThanks => (r = EchoOf(OkThanks) /\ HasSubstring(r, OkThanks))

C7_Witness ==
  /\ Len(messages) = 5
  /\ messages[2] = [role |-> "user", content |-> IsThisReal]
  /\ messages[3] = [role |-> "ai", content |-> GreetingReply]
  /\ messages[4] = [role |-> "user", content |-> OkThanks]
  /\ messages[5].role = "ai"
  /\ HasSubstring(messages[5].content, OkThanks)

\* C8: the conversation starts as the seeded greeting alone, with isLoading
\* false, and in every state the history is non-empty and begins with the
\* seeded greeting.
C8_SeededGreeting ==
  /\ messages = << [role |-> "ai", content |-> SeedGreeting] >>
  /\ ~isLoading
  /\ [](Len(messages) >= 1 /\ messages[1] = [role |-> "ai", content |-> SeedGreeting])

\* C8 witness: two exchanges later the greeting is still first
C8_Witness ==
  /\ Len(messages) = 5
  /\ messages[1] = [role |-> "ai", content |-> SeedGreeting]
  /\ ~isLoading

\* C9: every step leaves the history as it was or appends one message to it.
C9_AppendOnly ==
  [][ /\ IsPrefix(messages, messages')
      /\ Len(messages') <= Len(messages) + 1 ]_vars

\* C9 witness: a reply has just been appended behind an earlier exchange
C9_Witness ==
  /\ Len(messages) = 5
  /\ lastEvent = "timerCallback"
  /\ messages[2].role = "user"
  /\ messages[4].role = "user"

\* C10 as stated: every message, of either role, has between 1 and maxLength
\* characters.
C10_AllWithinMaxLength ==
  \A i \in DOMAIN messages :
    Len(messages[i].content) >= 1 /\ Len(messages[i].content) <= maxLength

\* C10 amended: every user message has between 1 and maxLength characters;
\* every "ai" message has at least 1 and at most maxLength plus the length
\* of the echo reply's fixed text.
C10_UserWithinMaxLength ==
  \A i \in DOMAIN messages :
    /\ Len(messages[i].content) >= 1
    /\ messages[i].role = "user" => Len(messages[i].content) <= maxLength
    /\ messages[i].role = "ai" =>
         Len(messages[i].content) <= maxLength + Len(EchoPrefix) + Len(EchoSuffix)

\* C10 witness: the echo of a draft of maxLength characters is in the history
C10_Witness ==
  \E i \in Replied :
    /\ Len(messages[i].content) = maxLength
    /\ messages[i + 1].content = EchoOf(messages[i].content)
    /\ Len(messages[i + 1].content) > maxLength

\* C11: with pending timers eventually fired, every state in which a reply
\* is awaited is followed by an idle state whose last message is an "ai"
\* reply.
C11_ReplyEventuallyArrives ==
  isLoading ~> (~isLoading /\ Last(messages).role = "ai" /\ Len(messages) >= 3)

\* C11 witness: the reply to a second submission has arrived
C11_Witness ==
  /\ ~isLoading
  /\ lastEvent = "timerCallback"
  /\ Len(messages) = 5
  /\ timers = << >>

\* The timer callback (App.js:46-50) tests nothing before it appends, and it
\* runs only while a reply is awaited: no step delivers a reply in the idle
\* state, so the program has no stale resolution to accept or to reject.
TimerOnlyWhileLoading ==
  [][ lastEvent' = "timerCallback" => (isLoading /\ Len(timers) = 1) ]_vars

\* C13: the text a pending timer holds is the content of the user message
\* that ends the history, and when the timer fires, the message it appends
\* is the "ai" message with the resolver's reply to that user message,
\* whatever the draft has become since the submit.
C13_ReplyAnswersItsSubmission ==
  [][ lastEvent' = "timerCallback" =>
        /\ Last(messages).role = "user"
        /\ \A i \in DOMAIN timers : timers[i] = Last(messages).content
        /\ messages' = Append(messages,
                              [role |-> "ai",
                               content |-> getFakeAIReply(Last(messages).content)]) ]_vars

\* C13 witness: the draft was edited while the reply was pending, and the
\* reply echoes the submitted text, not the new draft
C13_Witness ==
  /\ lastEvent = "timerCallback"
  /\ Len(messages) = 3
  /\ trim(input) # << >>
  /\ input # messages[2].content
  /\ messages[3].content = EchoOf(messages[2].content)

\* C14: the roles alternate from the seeded greeting on ("ai" at the odd
\* places, "user" at the even ones), and the history has odd length exactly
\* when idle, even length exactly when a reply is awaited.
C14_RolesAlternate ==
  /\ \A i \in DOMAIN messages :
       messages[i].role = (IF i % 2 = 1 THEN "ai" ELSE "user")
  /\ \A i \in 1..(Len(messages) - 1) : messages[i].role # messages[i + 1].role
  /\ isLoading <=> (Len(messages) % 2 = 0)

\* C14 witness: a second submission is awaiting its reply
C14_Witness ==
  /\ Len(messages) = 4
  /\ isLoading
  /\ messages[2].role = "user"
  /\ messages[3].role = "ai"
  /\ messages[4].role = "user"
  /\ lastEvent = "handleSendMsg"

\* C15: behind the rendered form, the draft is empty whenever a reply is
\* awaited; an accepted submit empties the draft, a rejected submit (empty
\* draft, or reply pending) leaves it as it was, and the timer callback
\* leaves it as it was.
C15_DraftFrame ==
  /\ [](isLoading => input = << >>)
  /\ [][ /\ (lastEvent' = "handleSendMsg" /\ ~isLoading /\ trim(input) # << >>)
              => (input' = << >> /\ messages' # messages)
         /\ (lastEvent' = "handleSendMsg" /\ (isLoading \/ trim(input) = << >>))
              => input' = input
         /\ lastEvent' = "timerCallback" => input' = input ]_vars

\* C15 witness: a submit was accepted and the draft is empty while its reply
\* is awaited
C15_Witness ==
  /\ lastEvent = "handleSendMsg"
  /\ isLoading
  /\ input = << >>
  /\ Len(messages) = 2
  /\ Len(messages[2].content) > 1

====
